---- MODULE Spec2Model ----
(***************************************************************************)
(* Model of the three chart-processing actions of blueprint-workflows:     *)
(*   - manifest validation  (manifest-validation/src/main.ts, run)        *)
(*   - dependency update    (src/unnamed/part_000, run)                   *)
(*   - unit testing         (src/unnamed/part_001, processChart and run)  *)
(* One behaviour is one run of one of the actions.  The environment (the   *)
(* workspace variable, the inputs, the listing) is fixed in Init; what the *)
(* chart-local configuration and the external tool answer for a chart is   *)
(* chosen when it is first asked and kept from then on.                    *)
(***************************************************************************)
EXTENDS Integers, Sequences, FiniteSets, TLC

\* ------------------------------------------------------------------ bounds
\* Longest listing (number of chart keys in the listing file).
MaxCharts == 2
\* Number of runs over the same environment (SpecRerun only).
MaxRuns == 2

\* ------------------------------------------------------------ value domains
Charts == {"chartA", "chartB", "chartC"}

Functionalities == {"validation", "dependencyUpdate", "test"}

\* An environment variable: unset, or set to a string.
EnvUnset == [set |-> FALSE, value |-> ""]
EnvSet(s) == [set |-> TRUE, value |-> s]
WorkspaceEnvs == {EnvUnset, EnvSet(""), EnvSet("/ws")}

\* Values of the boolean-like inputs ("" is the input left out).
InputStrings == {"", "true", "TRUE", "false"}

\* What one invocation of the external tool does: it returns an exit code with
\* the captured output, or it raises an Error.
Returned(code, out, err) ==
    [kind |-> "return", exitCode |-> code, stdout |-> out, stderr |-> err, message |-> ""]
Raised(msg) ==
    [kind |-> "raise", exitCode |-> 0, stdout |-> "", stderr |-> "", message |-> msg]
NotAsked == [kind |-> "unset", exitCode |-> 0, stdout |-> "", stderr |-> "", message |-> ""]
ToolOutcomes ==
    { Returned(0, "", ""),
      Returned(1, "out", "boom"),
      Returned(1, "out", ""),
      Returned(1, "", ""),
      Returned(-1, "", "No tests directory found"),
      Returned(-1, "", "boom"),
      Raised("E1"),
      Raised("E2") }

\* All listings: sequences of distinct chart keys, at most MaxCharts long.
Range(s) == { s[i] : i \in 1..Len(s) }
Listings ==
    UNION { { s \in [1..n -> Charts] : \A i, j \in 1..n : i # j => s[i] # s[j] }
            : n \in 0..MaxCharts }

\* ------------------------------------------------------------------- state
VARIABLES
    functionality,      \* which action runs
    envWorkspace,       \* process.env.GITHUB_WORKSPACE
    inputParallel,      \* input parallel (dependency update)
    inputChangedOnly,   \* INPUT_VALIDATE_CHANGED_ONLY (validation)
    listing,            \* Object.keys of the parsed listing file
    ciConfig,           \* chart -> "unread" | "enabled" | "disabled"
    toolBehaviour,      \* chart -> what the tool does for it (NotAsked before)
    pc,                 \* position of run()
    idx,                \* index of the sequential for-loop
    changedHelmCharts,  \* [detected |-> BOOLEAN, charts |-> set]
    toolState,          \* chart -> "idle" | "running" | "settled"
    promises,           \* chart -> [state, value, message] of the mapped promise
    results,            \* TestResult list (unit testing)
    tableRows,          \* rows of the summary table
    summaryBuffer,      \* core.summary buffer: kinds of the parts added
    written,            \* documents flushed by core.summary.write()
    setFailed,          \* messages passed to core.setFailed, in order
    toolCalls,          \* chart -> invocations of the external tool in this run
    gateCalls,          \* chart -> isFunctionEnabled calls in this run
    listingLoads,       \* getListingFileContent calls in this run
    detectCalls,        \* detectChangedHelmCharts calls in this run
    settleOrder,        \* charts in the order their invocations completed
    runs,               \* number of the current run
    prev                \* outcome of the previous run (SpecRerun)

envVars == <<functionality, envWorkspace, inputChangedOnly, listing>>
answerVars == <<ciConfig, toolBehaviour>>
runVars == <<pc, idx, changedHelmCharts, toolState, promises, results, tableRows,
             summaryBuffer, written, setFailed, toolCalls, gateCalls,
             listingLoads, detectCalls, settleOrder>>
vars == <<envVars, inputParallel, answerVars, runVars, runs, prev>>

\* --------------------------------------------------------- pure functions
\* String(process.env[...]): an unset variable becomes the text "undefined".
String(e) == IF e.set THEN e.value ELSE "undefined"

\* utils.assertNullOrEmpty(value, message): TRUE when it throws.
assertNullOrEmpty(value) == value = ""

\* 'Missing env ' + constants.envvars.GITHUB_WORKSPACE + '!' (the quotes around the
\* name left out).
MissingWorkspaceMessage == "Missing env GITHUB_WORKSPACE!"

\* String.prototype.toLowerCase on the input values of the model.
ToLowerCase(s) == IF s = "TRUE" THEN "true" ELSE s

\* a || b on strings: the empty string is falsy.
JsOr(a, b) == IF a = "" THEN b ELSE a

\* const parallelInput = core.getInput('parallel').toLowerCase() === 'true'
parallelInput == ToLowerCase(inputParallel) = "true"

\* const VALIDATE_CHANGED_ONLY =
\*   String(process.env.INPUT_VALIDATE_CHANGED_ONLY || 'false').toLowerCase() === 'true'
VALIDATE_CHANGED_ONLY == ToLowerCase(JsOr(inputChangedOnly, "false")) = "true"

\* Whether this run fans out with Promise.all.
ParallelMode ==
    CASE functionality = "validation" -> FALSE
      [] functionality = "dependencyUpdate" -> parallelInput
      [] functionality = "test" -> TRUE

\* listing entry: relativePath of a chart key.
RelativePath(item) ==
    CASE item = "chartA" -> "charts/chartA"
      [] item = "chartB" -> "charts/chartB"
      [] item = "chartC" -> "charts/chartC"

IconPassed == "white_check_mark"
IconFailed == "x"
IconSkipped == "next_track_button"
IconDisabled == ":heavy_exclamation_mark:"
NoReason == "<undefined>"

\* Array.prototype.join over strings.
RECURSIVE Join(_, _)
Join(s, sep) ==
    IF Len(s) = 0 THEN ""
    ELSE IF Len(s) = 1 THEN s[1]
    ELSE s[1] \o sep \o Join(Tail(s), sep)

\* Array.prototype.map.
Map(s, Op(_)) == [i \in 1..Len(s) |-> Op(s[i])]

\* Faulty variant of NotModified: the loop never skips a chart.
NeverSkipped(item) == FALSE

\* The loop's skip test: VALIDATE_CHANGED_ONLY && changedHelmCharts && !changedHelmCharts.has(item)
NotModified(item) ==
    /\ functionality = "validation"
    /\ VALIDATE_CHANGED_ONLY
    /\ changedHelmCharts.detected
    /\ item \notin changedHelmCharts.charts

\* The answers isFunctionEnabled may give for a chart: free the first time the
\* chart-local configuration is read, the same afterwards.
GateAnswers(item) ==
    IF ciConfig[item] = "unread" THEN BOOLEAN ELSE {ciConfig[item] = "enabled"}

\* Faulty variant of InvokedOnce: the helper called again after the first call.
InvokedWithRetry(calls) == calls + 2

\* The number of tool invocations of a chart after the single
\* await utilsHelmChart.unittest / DependencyUpdate / template of its branch.
InvokedOnce(calls) == calls + 1

\* Faulty variant of TakesEnabledBranch: the tool is invoked whatever the gate answers.
AlwaysEnabledBranch(answer) == TRUE

\* if (utils.isFunctionEnabled(dir, functionality, true)) { invoke the tool }
TakesEnabledBranch(answer) == answer

ConfigOf(answer) == IF answer THEN "enabled" ELSE "disabled"

\* The outcomes the tool may have for a chart: free the first time, the same
\* afterwards.
ToolAnswers(item) ==
    IF toolBehaviour[item].kind = "unset" THEN ToolOutcomes ELSE {toolBehaviour[item]}

\* Table row of a chart the action processed (validation, dependency update):
\* the value the tool returned is not looked at.
DoneRow(item) == <<item, IconPassed, RelativePath(item)>>
DisabledRow(item) == <<item, IconDisabled, RelativePath(item)>>

\* Faulty variant of DisabledResult: the disabled branch reporting the chart as failed.
DisabledResultAsFailed(item) ==
    [chart |-> item, status |-> "failed", reason |-> "Disabled by .ci.config.yaml",
     relativePath |-> RelativePath(item)]

\* processChart, the disabled branch.
DisabledResult(item) ==
    [chart |-> item, status |-> "disabled", reason |-> "Disabled by .ci.config.yaml",
     relativePath |-> RelativePath(item)]

\* Faulty variant of ClassifyResult: the reason of a failed chart taken from the
\* standard output first.
ClassifyStdoutFirst(item, result) ==
    IF result.exitCode = -1 /\ result.stderr = "No tests directory found"
    THEN [chart |-> item, status |-> "skipped", reason |-> "No tests directory",
          relativePath |-> RelativePath(item)]
    ELSE IF result.exitCode = 0
    THEN [chart |-> item, status |-> "passed", reason |-> NoReason,
          relativePath |-> RelativePath(item)]
    ELSE [chart |-> item, status |-> "failed",
          reason |-> JsOr(result.stdout, JsOr(result.stderr, "Unknown error")),
          relativePath |-> RelativePath(item)]

\* Faulty variant of ClassifyResult: the sentinel recognised by its exit code alone.
ClassifyByExitCodeOnly(item, result) ==
    IF result.exitCode = -1
    THEN [chart |-> item, status |-> "skipped", reason |-> "No tests directory",
          relativePath |-> RelativePath(item)]
    ELSE IF result.exitCode = 0
    THEN [chart |-> item, status |-> "passed", reason |-> NoReason,
          relativePath |-> RelativePath(item)]
    ELSE [chart |-> item, status |-> "failed",
          reason |-> JsOr(result.stderr, JsOr(result.stdout, "Unknown error")),
          relativePath |-> RelativePath(item)]

\* processChart after the awaited utilsHelmChart.unittest(...) returned result.
ClassifyResult(item, result) ==
    IF result.exitCode = -1 /\ result.stderr = "No tests directory found"
    THEN [chart |-> item, status |-> "skipped", reason |-> "No tests directory",
          relativePath |-> RelativePath(item)]
    ELSE IF result.exitCode = 0
    THEN [chart |-> item, status |-> "passed", reason |-> NoReason,
          relativePath |-> RelativePath(item)]
    ELSE [chart |-> item, status |-> "failed",
          reason |-> JsOr(result.stderr, JsOr(result.stdout, "Unknown error")),
          relativePath |-> RelativePath(item)]

\* The switch of results.map in run (unit testing).
StatusIcon(status) ==
    CASE status = "passed" -> IconPassed
      [] status = "failed" -> IconFailed
      [] status = "skipped" -> IconSkipped
      [] status = "disabled" -> IconDisabled

ResultRow(result) == <<result.chart, StatusIcon(result.status), result.relativePath>>

\* Faulty variant of IsFailed: a skipped chart counted as a failure too.
IsFailedOrSkipped(r) == r.status \in {"failed", "skipped"}

\* results.filter((r) => r.status === 'failed')
IsFailed(r) == r.status = "failed"
failedResults(rs) == SelectSeq(rs, IsFailed)

ChartOf(r) == r.chart
\* Faulty variant of FailedMessage: the message names every chart of the results.
FailedMessageAllCharts(rs) == "Helm tests failed for: " \o Join(Map(rs, ChartOf), ", ")

\* core.setFailed('Helm tests failed for: ' + failedCharts)
FailedMessage(rs) == "Helm tests failed for: " \o Join(Map(failedResults(rs), ChartOf), ", ")

\* The value a mapped promise of the fan-out settles with.
Pending == [state |-> "pending", value |-> <<>>, message |-> ""]
NoPromise == [state |-> "none", value |-> <<>>, message |-> ""]
Fulfilled(v) == [state |-> "fulfilled", value |-> v, message |-> ""]
Rejected(msg) == [state |-> "rejected", value |-> <<>>, message |-> msg]

\* Faulty variant of DisabledValue: the fan-out reports a disabled chart as updated.
DisabledValueAsDone(item) ==
    IF functionality = "test" THEN DisabledResult(item) ELSE DoneRow(item)

\* The value the callback returns for a chart the gate answered for at once.
DisabledValue(item) ==
    IF functionality = "test" THEN DisabledResult(item) ELSE DisabledRow(item)

\* The promise of a chart's callback once the tool settled with outcome.
SettledPromise(item, outcome) ==
    IF outcome.kind = "raise" THEN Rejected(outcome.message)
    ELSE IF functionality = "test" THEN Fulfilled(ClassifyResult(item, outcome))
    ELSE Fulfilled(DoneRow(item))

\* Faulty variant of PromiseAll: the values collected from the last key to the first.
PromiseAllReversed(keys, ps) == [i \in 1..Len(keys) |-> ps[keys[Len(keys) + 1 - i]].value]

\* Promise.all(promises): the values in the order of the keys.
PromiseAll(keys, ps) == [i \in 1..Len(keys) |-> ps[keys[i]].value]

\* Faulty variant of AllFulfilled: the join resolves with the first fulfilled
\* promise.
SomeFulfilled(keys, ps) == \E i \in 1..Len(keys) : ps[keys[i]].state = "fulfilled"

\* Promise.all resolves when every promise of the array is fulfilled.
AllFulfilled(keys, ps) == \A i \in 1..Len(keys) : ps[keys[i]].state = "fulfilled"

\* Faulty variant of CatchError: the catch block swallows the error.
CatchSwallowed(message) == setFailed

\* catch (error) { if (error instanceof Error) core.setFailed(error.message) }
CatchError(message) == Append(setFailed, message)

\* ---------------------------------------------------------------- initial
FreshRun ==
    /\ pc = "start"
    /\ idx = 1
    /\ changedHelmCharts = [detected |-> FALSE, charts |-> {}]
    /\ toolState = [c \in Charts |-> "idle"]
    /\ promises = [c \in Charts |-> NoPromise]
    /\ results = <<>>
    /\ tableRows = <<>>
    /\ summaryBuffer = <<>>
    /\ written = <<>>
    /\ setFailed = <<>>
    /\ toolCalls = [c \in Charts |-> 0]
    /\ gateCalls = [c \in Charts |-> 0]
    /\ listingLoads = 0
    /\ detectCalls = 0
    /\ settleOrder = <<>>

NoPrev == [mode |-> "none", rows |-> <<>>, tableWritten |-> FALSE, failed |-> FALSE,
           messages |-> <<>>]

Init ==
    /\ functionality \in Functionalities
    /\ envWorkspace \in WorkspaceEnvs
    /\ inputParallel \in (IF functionality = "dependencyUpdate" THEN InputStrings ELSE {""})
    /\ inputChangedOnly \in (IF functionality = "validation" THEN InputStrings ELSE {""})
    /\ listing \in Listings
    /\ ciConfig = [c \in Charts |-> "unread"]
    /\ toolBehaviour = [c \in Charts |-> NotAsked]
    /\ FreshRun
    /\ runs = 1
    /\ prev = NoPrev

\* ------------------------------------------------------------------ actions
\* utils.assertNullOrEmpty(GITHUB_WORKSPACE, ...): a throw goes to the catch.
AssertWorkspace ==
    /\ pc = "start"
    /\ LET GITHUB_WORKSPACE == String(envWorkspace) IN
         IF assertNullOrEmpty(GITHUB_WORKSPACE)
         THEN /\ setFailed' = CatchError(MissingWorkspaceMessage)
              /\ pc' = "done"
         ELSE /\ pc' = "load"
              /\ UNCHANGED setFailed
    /\ UNCHANGED <<envVars, inputParallel, answerVars, idx, changedHelmCharts, toolState,
                   promises, results, tableRows, summaryBuffer, written, toolCalls,
                   gateCalls, listingLoads, detectCalls, settleOrder, runs, prev>>

\* utilsHelmChart.getListingFileContent(pathGitRepository) and the parse.
LoadListing ==
    /\ pc = "load"
    /\ listingLoads' = listingLoads + 1
    /\ pc' = IF functionality = "validation" /\ VALIDATE_CHANGED_ONLY THEN "detect" ELSE "begin"
    /\ UNCHANGED <<envVars, inputParallel, answerVars, idx, changedHelmCharts, toolState,
                   promises, results, tableRows, summaryBuffer, written, setFailed,
                   toolCalls, gateCalls, detectCalls, settleOrder, runs, prev>>

\* The summary written when no chart changed (heading and one raw line).
InfoDocument == [parts |-> <<"heading", "raw">>, rows |-> <<>>]

\* Faulty variant of NoChartChanged: the early return is never taken.
NeverEmpty(charts) == FALSE

\* changedHelmCharts.size === 0
NoChartChanged(charts) == charts = {}

\* await utils.detectChangedHelmCharts(...) and the early return.
DetectChanged ==
    /\ pc = "detect"
    /\ \E charts \in SUBSET Range(listing) :
         /\ changedHelmCharts' = [detected |-> TRUE, charts |-> charts]
         /\ IF NoChartChanged(charts)
            THEN /\ written' = Append(written, InfoDocument)
                 /\ pc' = "done"
            ELSE /\ pc' = "begin"
                 /\ UNCHANGED written
    /\ detectCalls' = detectCalls + 1
    /\ UNCHANGED <<envVars, inputParallel, answerVars, idx, toolState, promises, results,
                   tableRows, summaryBuffer, setFailed, toolCalls, gateCalls,
                   listingLoads, settleOrder, runs, prev>>

\* core.startGroup(...); validation and dependency update buffer the heading
\* and the listing before the charts are processed.
Begin ==
    /\ pc = "begin"
    /\ summaryBuffer' = IF functionality = "test" THEN summaryBuffer
                        ELSE summaryBuffer \o <<"heading", "raw">>
    /\ pc' = IF ParallelMode THEN "launch" ELSE "loop"
    /\ UNCHANGED <<envVars, inputParallel, answerVars, idx, changedHelmCharts, toolState,
                   promises, results, tableRows, written, setFailed, toolCalls,
                   gateCalls, listingLoads, detectCalls, settleOrder, runs, prev>>

\* One iteration of the sequential for-loop, up to its await (or the loop's end).
SeqStep ==
    /\ pc = "loop"
    /\ IF idx > Len(listing)
       THEN /\ pc' = "report"
            /\ UNCHANGED <<idx, answerVars, gateCalls, toolCalls, toolState, tableRows>>
       ELSE LET item == listing[idx] IN
            IF NotModified(item)
            THEN /\ idx' = idx + 1
                 /\ UNCHANGED <<pc, answerVars, gateCalls, toolCalls, toolState, tableRows>>
            ELSE \E answer \in GateAnswers(item) :
                 /\ ciConfig' = [ciConfig EXCEPT ![item] = ConfigOf(answer)]
                 /\ gateCalls' = [gateCalls EXCEPT ![item] = @ + 1]
                 /\ UNCHANGED toolBehaviour
                 /\ IF TakesEnabledBranch(answer)
                    THEN /\ toolCalls' = [toolCalls EXCEPT ![item] = InvokedOnce(@)]
                         /\ toolState' = [toolState EXCEPT ![item] = "running"]
                         /\ pc' = "await"
                         /\ UNCHANGED <<idx, tableRows>>
                    ELSE /\ tableRows' = Append(tableRows, DisabledRow(item))
                         /\ idx' = idx + 1
                         /\ UNCHANGED <<pc, toolCalls, toolState>>
    /\ UNCHANGED <<envVars, inputParallel, changedHelmCharts, promises, results,
                   summaryBuffer, written, setFailed, listingLoads, detectCalls,
                   settleOrder, runs, prev>>

\* The awaited invocation of the sequential loop settles: a raise goes to the
\* catch, a return pushes the row.
SeqResume ==
    /\ pc = "await"
    /\ LET item == listing[idx] IN
       \E outcome \in ToolAnswers(item) :
         /\ toolBehaviour' = [toolBehaviour EXCEPT ![item] = outcome]
         /\ toolState' = [toolState EXCEPT ![item] = "settled"]
         /\ settleOrder' = Append(settleOrder, item)
         /\ IF outcome.kind = "raise"
            THEN /\ setFailed' = CatchError(outcome.message)
                 /\ pc' = "done"
                 /\ UNCHANGED <<idx, tableRows>>
            ELSE /\ tableRows' = Append(tableRows, DoneRow(item))
                 /\ idx' = idx + 1
                 /\ pc' = "loop"
                 /\ UNCHANGED setFailed
    /\ UNCHANGED <<envVars, inputParallel, ciConfig, changedHelmCharts, promises, results,
                   summaryBuffer, written, toolCalls, gateCalls, listingLoads,
                   detectCalls, runs, prev>>

\* The coordinator takes the values of Promise.all.
Collect(ps) ==
    IF functionality = "test"
    THEN /\ results' = PromiseAll(listing, ps)
         /\ UNCHANGED tableRows
    ELSE /\ tableRows' = PromiseAll(listing, ps)
         /\ UNCHANGED results

\* keys.map(async (item) => ...): every callback runs to its first await, in the
\* order of the keys; then Promise.all is awaited.
Launch ==
    /\ pc = "launch"
    /\ \E answers \in [Range(listing) -> BOOLEAN] :
         /\ \A c \in Range(listing) : answers[c] \in GateAnswers(c)
         /\ ciConfig' = [c \in Charts |->
                IF c \in Range(listing) THEN ConfigOf(answers[c]) ELSE ciConfig[c]]
         /\ gateCalls' = [c \in Charts |->
                IF c \in Range(listing) THEN gateCalls[c] + 1 ELSE gateCalls[c]]
         /\ toolCalls' = [c \in Charts |->
                IF c \in Range(listing) /\ TakesEnabledBranch(answers[c])
                THEN InvokedOnce(toolCalls[c]) ELSE toolCalls[c]]
         /\ toolState' = [c \in Charts |->
                IF c \in Range(listing) /\ TakesEnabledBranch(answers[c]) THEN "running" ELSE toolState[c]]
         /\ promises' = [c \in Charts |->
                IF c \in Range(listing)
                THEN (IF TakesEnabledBranch(answers[c]) THEN Pending ELSE Fulfilled(DisabledValue(c)))
                ELSE promises[c]]
    /\ IF AllFulfilled(listing, promises')
       THEN /\ Collect(promises')
            /\ pc' = "report"
       ELSE /\ pc' = "join"
            /\ UNCHANGED <<results, tableRows>>
    /\ UNCHANGED <<envVars, inputParallel, toolBehaviour, idx, changedHelmCharts,
                   summaryBuffer, written, setFailed, listingLoads, detectCalls,
                   settleOrder, runs, prev>>

\* An invocation of the fan-out settles and its callback finishes.  Promise.all
\* rejects with the first rejection and resolves when every promise is
\* fulfilled; after the run left the join the settlement changes nothing more.
ToolSettle(item) ==
    /\ pc \in {"join", "done"}
    /\ toolState[item] = "running"
    /\ \E outcome \in ToolAnswers(item) :
         /\ toolBehaviour' = [toolBehaviour EXCEPT ![item] = outcome]
         /\ promises' = [promises EXCEPT ![item] = SettledPromise(item, outcome)]
         /\ IF pc = "join" /\ outcome.kind = "raise"
            THEN /\ setFailed' = CatchError(outcome.message)
                 /\ pc' = "done"
                 /\ UNCHANGED <<results, tableRows>>
            ELSE IF pc = "join" /\ AllFulfilled(listing, promises')
            THEN /\ Collect(promises')
                 /\ pc' = "report"
                 /\ UNCHANGED setFailed
            ELSE UNCHANGED <<pc, setFailed, results, tableRows>>
    /\ toolState' = [toolState EXCEPT ![item] = "settled"]
    /\ settleOrder' = Append(settleOrder, item)
    /\ UNCHANGED <<envVars, inputParallel, ciConfig, idx, changedHelmCharts,
                   summaryBuffer, written, toolCalls, gateCalls, listingLoads,
                   detectCalls, runs, prev>>

\* The parts of the report, as the action adds them before write().
ReportParts ==
    CASE functionality = "test" -> <<"heading", "raw", "table", "break", "details">>
      [] functionality = "dependencyUpdate" -> summaryBuffer \o <<"table", "break", "details">>
      [] functionality = "validation" ->
            summaryBuffer \o <<"table", "break", "details">>
            \o (IF VALIDATE_CHANGED_ONLY /\ changedHelmCharts.detected THEN <<"raw">> ELSE <<>>)

\* The table is built and the summary written: await core.summary....write().
Report ==
    /\ pc = "report"
    /\ tableRows' = IF functionality = "test" THEN Map(results, ResultRow) ELSE tableRows
    /\ written' = Append(written, [parts |-> ReportParts, rows |-> tableRows'])
    /\ summaryBuffer' = <<>>
    /\ pc' = "finish"
    /\ UNCHANGED <<envVars, inputParallel, answerVars, idx, changedHelmCharts, toolState,
                   promises, results, setFailed, toolCalls, gateCalls, listingLoads,
                   detectCalls, settleOrder, runs, prev>>

\* After the write: core.endGroup(), and for unit testing the verdict.
Finish ==
    /\ pc = "finish"
    /\ setFailed' = IF functionality = "test" /\ Len(failedResults(results)) > 0
                    THEN Append(setFailed, FailedMessage(results))
                    ELSE setFailed
    /\ pc' = "done"
    /\ UNCHANGED <<envVars, inputParallel, answerVars, idx, changedHelmCharts, toolState,
                   promises, results, tableRows, summaryBuffer, written, toolCalls,
                   gateCalls, listingLoads, detectCalls, settleOrder, runs, prev>>

Next ==
    \/ AssertWorkspace
    \/ LoadListing
    \/ DetectChanged
    \/ Begin
    \/ SeqStep
    \/ SeqResume
    \/ Launch
    \/ \E item \in Charts : ToolSettle(item)
    \/ Report
    \/ Finish

Spec == Init /\ [][Next]_vars

\* ------------------------------------------------------- a second run
\* What a finished run leaves behind: its mode, the rows of the table it wrote
\* (none when it wrote no table) and whether it signalled failure.
TableDocuments == SelectSeq(written, LAMBDA d : \E i \in 1..Len(d.parts) : d.parts[i] = "table")
Outcome ==
    [mode |-> IF ParallelMode THEN "parallel" ELSE "sequential",
     rows |-> IF Len(TableDocuments) > 0 THEN TableDocuments[1].rows ELSE <<>>,
     tableWritten |-> Len(TableDocuments) > 0,
     failed |-> Len(setFailed) > 0,
     messages |-> setFailed]

\* The dependency-update action is run again over the same workspace, listing,
\* chart configuration and tool behaviour, with the parallel input set anew.
Rerun ==
    /\ pc = "done"
    /\ functionality = "dependencyUpdate"
    /\ runs < MaxRuns
    /\ \A c \in Charts : toolState[c] # "running"
    /\ prev' = Outcome
    /\ runs' = runs + 1
    /\ inputParallel' \in {"", "true"}
    /\ pc' = "start"
    /\ idx' = 1
    /\ changedHelmCharts' = [detected |-> FALSE, charts |-> {}]
    /\ toolState' = [c \in Charts |-> "idle"]
    /\ promises' = [c \in Charts |-> NoPromise]
    /\ results' = <<>>
    /\ tableRows' = <<>>
    /\ summaryBuffer' = <<>>
    /\ written' = <<>>
    /\ setFailed' = <<>>
    /\ toolCalls' = [c \in Charts |-> 0]
    /\ gateCalls' = [c \in Charts |-> 0]
    /\ listingLoads' = 0
    /\ detectCalls' = 0
    /\ settleOrder' = <<>>
    /\ UNCHANGED <<envVars, answerVars>>

NextRerun == Next \/ Rerun

SpecRerun == Init /\ [][NextRerun]_vars

\* ================================================================= claims
\* Definitions shared by the properties below.

\* The working set: the listing, narrowed to the changed charts when change
\* filtering is on.
FilterOn == functionality = "validation" /\ ToLowerCase(inputChangedOnly) = "true"
WorkingSet ==
    SelectSeq(listing, LAMBDA c : ~FilterOn \/ c \in changedHelmCharts.charts)

\* The chart column of a table.
ChartColumn(rows) == [i \in 1..Len(rows) |-> rows[i][1]]

\* Charts whose invocation raised in this run.
RaisedCharts == { c \in Charts : toolState[c] = "settled" /\ toolBehaviour[c].kind = "raise" }
\* Charts whose invocation returned in this run.
ReturnedCharts == { c \in Charts : toolState[c] = "settled" /\ toolBehaviour[c].kind = "return" }

TableWritten == Len(TableDocuments) > 0
WrittenRows == TableDocuments[1].rows

\* The run got as far as processing charts: the workspace check passed and the
\* run did not stop for an empty changed-set.
ProcessesCharts ==
    /\ listingLoads > 0
    /\ ~(changedHelmCharts.detected /\ changedHelmCharts.charts = {})

\* C1: when no invocation raises, the table a run writes has exactly one row per
\* chart of the working set, in listing order, in sequential and in parallel
\* mode, whatever order the parallel invocations complete in; and such a run
\* does write its table.
C1_OneRowPerChartInOrder ==
    /\ Len(TableDocuments) <= 1
    /\ TableWritten => ChartColumn(WrittenRows) = WorkingSet
    /\ (pc = "done" /\ ProcessesCharts /\ RaisedCharts = {}) => TableWritten

\* C1 witness: a parallel run over two charts whose invocations completed in the
\* reverse of the listing order, with its table written.
C1_Witness ==
    /\ ParallelMode
    /\ Len(listing) = 2
    /\ settleOrder = <<listing[2], listing[1]>>
    /\ TableWritten
    /\ Len(WrittenRows) = 2

\* C2: a run that reaches the report signals failure if and only if some chart
\* result is failed; passed, skipped and disabled results alone end without a
\* failure signal.
C2_VerdictIffFailed ==
    (pc = "done" /\ TableWritten) =>
        /\ (Len(setFailed) > 0) <=> (\E i \in 1..Len(WrittenRows) : WrittenRows[i][2] = IconFailed)
        /\ functionality = "test" =>
             ((Len(setFailed) > 0) <=> (\E i \in 1..Len(results) : results[i].status = "failed"))

\* C2 witness: a finished unit-testing run with a failed and a skipped result
\* and one failure signal.
C2_Witness ==
    /\ pc = "done"
    /\ functionality = "test"
    /\ TableWritten
    /\ \E i, j \in 1..Len(results) :
         results[i].status = "failed" /\ results[j].status = "skipped"
    /\ Len(setFailed) = 1

\* C3: over the same listing, chart configuration and tool behaviour, the run in
\* sequential mode and the run in parallel mode end alike: the same table rows
\* in the same order (or no table in both) and the same verdict, for every
\* order in which the parallel invocations complete.
C3_SameResultInBothModes ==
    (pc = "done" /\ prev.mode # "none" /\ prev.mode # Outcome.mode) =>
        /\ Outcome.tableWritten = prev.tableWritten
        /\ Outcome.rows = prev.rows
        /\ Outcome.failed = prev.failed

\* Stronger than C3 and not part of it: the two modes also signal the same
\* failure message.  It does not hold: when two invocations raise, the
\* sequential run reports the first in listing order, the parallel run the
\* first to complete.
SameFailureMessages ==
    (pc = "done" /\ prev.mode # "none" /\ prev.mode # Outcome.mode) =>
        Outcome.messages = prev.messages

\* C3 witness: a parallel second run after a sequential first run, two charts
\* completing in reverse order, one of them disabled in neither run, table
\* written.
C3_Witness ==
    /\ runs = 2
    /\ pc = "done"
    /\ prev.mode = "sequential"
    /\ Outcome.mode = "parallel"
    /\ Len(listing) = 2
    /\ settleOrder = <<listing[2], listing[1]>>
    /\ Outcome.tableWritten
    /\ Len(Outcome.rows) = 2

\* Position of a chart in a table (0 when it has no row).
RowsOf(rows, c) == { i \in 1..Len(rows) : rows[i][1] = c }

\* C4: a chart the Feature Gate reported disabled never has the external tool
\* invoked in that run; its result is exactly disabled (the disabled glyph in
\* the table, status disabled for unit testing) and only such charts have that
\* result; every failure signal of a run that processes charts comes from a
\* chart the gate reported enabled.
C4_DisabledNeverInvoked ==
    /\ \A c \in Charts : ciConfig[c] = "disabled" =>
         /\ toolCalls[c] = 0
         /\ toolState[c] = "idle"
    /\ TableWritten =>
         \A i \in 1..Len(WrittenRows) :
            (WrittenRows[i][2] = IconDisabled) <=> (ciConfig[WrittenRows[i][1]] = "disabled")
    /\ \A i \in 1..Len(results) :
         (results[i].status = "disabled") <=> (ciConfig[results[i].chart] = "disabled")
    /\ (listingLoads > 0 /\ Len(setFailed) > 0) =>
         \E c \in Charts :
            /\ ciConfig[c] = "enabled"
            /\ \/ c \in RaisedCharts
               \/ \E i \in 1..Len(results) : results[i].chart = c /\ results[i].status = "failed"

\* C4 witness: a finished unit-testing run with one chart disabled and another
\* chart failed, the table written and the failure signalled.
C4_Witness ==
    /\ pc = "done"
    /\ functionality = "test"
    /\ TableWritten
    /\ Len(setFailed) = 1
    /\ \E c, d \in Range(listing) :
         /\ ciConfig[c] = "disabled"
         /\ RowsOf(WrittenRows, c) # {}
         /\ d \in ReturnedCharts
         /\ \E i \in 1..Len(results) : results[i].chart = d /\ results[i].status = "failed"

\* Change filtering is on and the detected changed-set is not empty.
FilteredRun ==
    /\ FilterOn
    /\ changedHelmCharts.detected
    /\ changedHelmCharts.charts # {}

\* C5: with change filtering on and a non-empty changed-set, a chart of the
\* listing outside the changed-set is never passed to the Feature Gate, never
\* has the tool invoked and has no row in the table.
C5_UnchangedChartsExcluded ==
    FilteredRun =>
        \A c \in Range(listing) \ changedHelmCharts.charts :
            /\ gateCalls[c] = 0
            /\ ciConfig[c] = "unread"
            /\ toolCalls[c] = 0
            /\ RowsOf(tableRows, c) = {}
            /\ TableWritten => RowsOf(WrittenRows, c) = {}

\* C5 witness: a finished filtered validation run over two charts of which one
\* changed: the table has the changed chart's row only.
C5_Witness ==
    /\ pc = "done"
    /\ FilteredRun
    /\ Len(listing) = 2
    /\ changedHelmCharts.charts = {listing[2]}
    /\ TableWritten
    /\ ChartColumn(WrittenRows) = <<listing[2]>>

\* C6: with change filtering on and an empty changed-set the run is over: no
\* tool invocation and no Feature Gate consultation happened, exactly one
\* summary was written, it is the informational one (no table), and no failure
\* is signalled.
C6_EmptyChangedSetIsNoOp ==
    (FilterOn /\ changedHelmCharts.detected /\ changedHelmCharts.charts = {}) =>
        /\ pc = "done"
        /\ \A c \in Charts : toolCalls[c] = 0 /\ gateCalls[c] = 0 /\ toolState[c] = "idle"
        /\ Len(written) = 1
        /\ ~TableWritten
        /\ written[1].rows = <<>>
        /\ setFailed = <<>>

\* C6 witness: the listing has two charts, change detection ran and found none
\* of them changed.
C6_Witness ==
    /\ FilterOn
    /\ detectCalls = 1
    /\ changedHelmCharts.detected
    /\ changedHelmCharts.charts = {}
    /\ Len(listing) = 2
    /\ Len(written) = 1

\* The icon of a chart's row in the written table.
IconOf(c) == WrittenRows[CHOOSE i \in RowsOf(WrittenRows, c) : TRUE][2]

\* The reserved outcome of the unit-test helper: exit code -1 with this text.
IsNoTests(o) == o.exitCode = -1 /\ o.stderr = "No tests directory found"

\* A run that processes charts and in which no invocation raised reports every
\* chart of the working set.
AllChartsReported ==
    (pc = "done" /\ ProcessesCharts /\ RaisedCharts = {}) =>
        /\ TableWritten
        /\ Len(WrittenRows) = Len(WorkingSet)

FirstRaised ==
    settleOrder[CHOOSE i \in 1..Len(settleOrder) :
                    /\ settleOrder[i] \in RaisedCharts
                    /\ \A j \in 1..(i - 1) : settleOrder[j] \notin RaisedCharts]

\* C9: once an invocation has raised, in sequential or in parallel mode, the run
\* is over, core.setFailed was called exactly once, with the message of the
\* (first) raised error, and no summary was written, not even for the charts
\* whose invocations returned.
C9_RaiseFailsRunWithoutSummary ==
    RaisedCharts # {} =>
        /\ pc = "done"
        /\ setFailed = <<toolBehaviour[FirstRaised].message>>
        /\ written = <<>>

\* C9 witness: a parallel run over two charts; the first invocation to complete
\* returned, the second raised.
C9_Witness ==
    /\ ParallelMode
    /\ Len(settleOrder) = 2
    /\ settleOrder[1] \in ReturnedCharts
    /\ settleOrder[2] \in RaisedCharts
    /\ pc = "done"

\* The workspace-root input is missing or empty.
WorkspaceMissing == ~envWorkspace.set \/ envWorkspace.value = ""

\* What C10 asks of a run: it ends at the first step with the message naming
\* the input; nothing is loaded, detected, invoked or written.
AbortedAtFirstStep ==
    /\ pc \in {"start", "done"}
    /\ pc = "done" => setFailed = <<MissingWorkspaceMessage>>
    /\ listingLoads = 0
    /\ detectCalls = 0
    /\ \A c \in Charts : toolCalls[c] = 0 /\ gateCalls[c] = 0
    /\ written = <<>>

\* C10: when the workspace-root input is missing or empty, the run aborts at
\* the first step: the failure signal names the missing input, the listing is
\* never loaded, change detection and the tool are never invoked and nothing is
\* written.
C10_MissingWorkspaceAborts == WorkspaceMissing => AbortedAtFirstStep

\* C10, the half the code does keep: a workspace variable set to the empty
\* string aborts the run at the first step.
C10_EmptyWorkspaceAborts == (envWorkspace.set /\ envWorkspace.value = "") => AbortedAtFirstStep

\* Charts of the working set the Feature Gate reported enabled.
EnabledWorkingCharts == { c \in Range(WorkingSet) : ciConfig[c] = "enabled" }

\* C11: in every run and in both modes the external tool is invoked at most
\* once for each chart: an invocation that returned a failure or raised is not
\* attempted again, and a chart outside the working set is not invoked at all.
\* When the run is over and no invocation raised, the tool was invoked exactly
\* once for each enabled chart of the working set.
C11_InvokedAtMostOnce ==
    /\ \A c \in Charts :
         /\ toolCalls[c] <= 1
         /\ toolState[c] # "idle" => toolCalls[c] = 1
         /\ c \notin Range(listing) => toolCalls[c] = 0
    /\ (pc = "done" /\ ProcessesCharts /\ RaisedCharts = {}) =>
         /\ \A c \in EnabledWorkingCharts : toolCalls[c] = 1 /\ toolState[c] = "settled"
         /\ \A c \in Charts \ EnabledWorkingCharts : toolCalls[c] = 0

\* C11 witness: a finished unit-testing run over two enabled charts, one of
\* which returned exit code 1: each was invoked once.
C11_Witness ==
    /\ pc = "done"
    /\ functionality = "test"
    /\ Len(listing) = 2
    /\ RaisedCharts = {}
    /\ EnabledWorkingCharts = Range(listing)
    /\ \E c \in ReturnedCharts : toolBehaviour[c].exitCode = 1
    /\ \A c \in Range(listing) : toolCalls[c] = 1

\* Charts whose invocation is in flight.
InFlight == { c \in Charts : toolState[c] = "running" }

\* The fan-out has happened: the coordinator is at the join or beyond it.
PastLaunch == ParallelMode /\ (pc \in {"join", "report", "finish"} \/ Len(settleOrder) > 0)

\* Every callback of the fan-out has run to its await: the gate was asked for
\* every chart of the listing and the tool was started for every enabled one.
AllStarted ==
    \A c \in Range(listing) :
        /\ gateCalls[c] = 1
        /\ ciConfig[c] = "enabled" => toolCalls[c] = 1

\* C12 as stated: in parallel mode every invocation is started before any is
\* awaited and the coordinator stays at the join until every started
\* invocation has completed, also when one of them raises while siblings are
\* in flight: beyond the join no invocation is in flight.
C12_Original ==
    /\ PastLaunch => AllStarted
    /\ (ParallelMode /\ pc \in {"report", "finish", "done"}) => InFlight = {}

\* C12 amended: in parallel mode every invocation of the working set is started
\* before any of them is awaited, and the coordinator stays suspended at the
\* join until every started invocation has completed or one of them has
\* raised.  The report is built only after every started invocation has
\* completed and none raised; when one raises, the run ends with the failure
\* signal at once, while the siblings still in flight run on unobserved.
C12_JoinUntilAllDoneOrOneRaises ==
    /\ PastLaunch => AllStarted
    /\ (ParallelMode /\ pc = "join") => (InFlight # {} /\ RaisedCharts = {})
    /\ (ParallelMode /\ (pc \in {"report", "finish"} \/ TableWritten)) =>
          (InFlight = {} /\ RaisedCharts = {})
    /\ (ParallelMode /\ pc = "done" /\ InFlight # {}) =>
          /\ RaisedCharts # {}
          /\ Len(setFailed) = 1
          /\ written = <<>>

\* C12 witness: a parallel run over two charts has ended on the raise of one
\* invocation while the other is still in flight.
C12_Witness ==
    /\ ParallelMode
    /\ pc = "done"
    /\ Len(listing) = 2
    /\ Cardinality(RaisedCharts) = 1
    /\ Cardinality(InFlight) = 1
    /\ Len(setFailed) = 1

\* The charts whose tests failed, in working-set order: enabled charts whose
\* invocation returned a non-zero exit code that is not the no-tests outcome.
TestsFailed(c) ==
    /\ c \in ReturnedCharts
    /\ toolBehaviour[c].exitCode # 0
    /\ ~IsNoTests(toolBehaviour[c])
FailedCharts == SelectSeq(WorkingSet, TestsFailed)

\* The text naming the charts of a list, separated by a comma and a blank.
RECURSIVE Names(_)
Names(cs) ==
    IF cs = <<>> THEN ""
    ELSE IF Len(cs) = 1 THEN cs[1]
    ELSE cs[1] \o ", " \o Names(Tail(cs))

\* C13: in a unit-testing run in which no invocation raises, the failure signal
\* is emitted only after the complete summary (one row for every chart of the
\* working set) has been written; when the run is over and some chart's tests
\* failed it has been emitted exactly once, with a message naming every failed
\* chart and no other, in working-set order.
C13_SummaryThenFailureSignal ==
    (functionality = "test" /\ listingLoads > 0 /\ RaisedCharts = {}) =>
        /\ Len(setFailed) > 0 =>
             /\ TableWritten
             /\ ChartColumn(WrittenRows) = WorkingSet
             /\ pc = "done"
        /\ pc \in {"report", "finish"} => setFailed = <<>>
        /\ (pc = "done" /\ FailedCharts # <<>>) =>
             setFailed = << "Helm tests failed for: " \o Names(FailedCharts) >>
        /\ (pc = "done" /\ FailedCharts = <<>>) => setFailed = <<>>

\* C13 witness: a finished unit-testing run over two charts; the first passed,
\* the second failed, the table has both rows and the one failure message names
\* the second chart only.
C13_Witness ==
    /\ pc = "done"
    /\ functionality = "test"
    /\ Len(listing) = 2
    /\ RaisedCharts = {}
    /\ FailedCharts = <<listing[2]>>
    /\ listing[1] \in ReturnedCharts
    /\ TableWritten
    /\ Len(WrittenRows) = 2
    /\ Len(setFailed) = 1

====
